---- MODULE Spec2Model ----
(***************************************************************************)
(* Filesystem-backed content-addressable storage: FsBlocks (Blocks) and    *)
(* FsStorage<T> (CidMap, as FsMultikeyMap / FsVladMap).                     *)
(*                                                                         *)
(* The filesystem is a function from paths to nodes.  A path is a sequence *)
(* of components below the root: <<>> is the root, <<c>> a shard directory,*)
(* <<c, name>> an entry of it, where name is a sequence of characters.     *)
(* Every handler is translated step by step (one action per system call or *)
(* callback), so that the steps of several callers can be interleaved.     *)
(***************************************************************************)
EXTENDS Integers, Sequences, FiniteSets, TLC

\* ------------------------------------------------------------------ bounds
NumIds == 2         \* identifiers 8*0, 8*1, ... (one raw byte each)
MaxCalls == 3       \* calls made in a run of interleaved callers
MaxStrLen == 4      \* longest encoded string whose shard character is computed

\* The callers; a caller's name is also the random part of its temp file names.
MainProc == "A"
Reader == "B"
Procs == {MainProc, Reader}

\* ------------------------------------------------- identifiers and payloads
\* An identifier T is given by its raw bytes (T: Into<Vec<u8>>): one byte.
Ids == { <<8 * k>> : k \in 0 .. (NumIds - 1) }

\* Block payloads: two byte strings of different length and content.
Payloads == { <<1>>, <<2, 2>> }

\* A Cid (the value of a CidMap), its bytes and the parse of bytes.
CidV1 == 1
Cids == { [version |-> CidV1, hash |-> h] : h \in {1, 2} }
CidToBytes(c) == <<c.version, c.hash>>
CidParses(b) == Len(b) = 2 /\ b[1] = CidV1
CidFromBytes(b) == [version |-> b[1], hash |-> b[2]]

\* ---------------------------------------------------------------- results
Ok(v) == [ok |-> TRUE, val |-> v, err |-> "none"]
Err(e) == [ok |-> FALSE, val |-> <<>>, err |-> e]
None == [some |-> FALSE, cid |-> <<>>]
Some(c) == [some |-> TRUE, cid |-> c]
Unit == <<>>

\* ------------------------------------------------------- encoding alphabet
\* The encodings of the model: bit-packed encodings of multibase that the
\* table of the code knows, and Identity, which it does not.
Bases == {"Base2", "Base8", "Base16Lower", "Base32Z", "Base64", "Base64Url", "Identity"}

Base32ZSymbols ==
    <<"y", "b", "n", "d", "r", "f", "g", "8", "e", "j", "k", "m", "c", "p", "q", "x",
      "o", "t", "1", "u", "w", "i", "s", "z", "a", "3", "4", "5", "h", "7", "6", "9">>
Base64UrlSymbols ==
    <<"A", "B", "C", "D", "E", "F", "G", "H", "I", "J", "K", "L", "M", "N", "O", "P",
      "Q", "R", "S", "T", "U", "V", "W", "X", "Y", "Z", "a", "b", "c", "d", "e", "f",
      "g", "h", "i", "j", "k", "l", "m", "n", "o", "p", "q", "r", "s", "t", "u", "v",
      "w", "x", "y", "z", "0", "1", "2", "3", "4", "5", "6", "7", "8", "9", "-", "_">>

VARIABLES
    lazy,   \* the handle's laziness flag
    kind,   \* "blocks" or "map"
    fs,     \* the filesystem below the root
    proc,   \* per caller: position in the handler it runs, its locals, its result
    pre,    \* the filesystem when the running call was made (sequential callers)
    hist,   \* history: last put per id, payload returned by the last rm per id,
            \* and the call that returned last (sequential callers)
    calls   \* the number of calls made so far (counted for interleaved callers)

vars == <<lazy, kind, fs, proc, pre, hist, calls>>

\* FsBlocksError: the error kinds of FsBlocks, by the kind of the taxonomy each
\* variant stands for (NoSuchBlock for NoSuchData, InvalidCid for InvalidId)
FsBlocksError(variant) ==
    CASE variant = "NoSuchBlock" -> "NoSuchData"
      [] variant = "InvalidCid" -> "InvalidId"
      [] OTHER -> variant

\* FsBlocks::encoding_symbols: the table FsBlocks keeps of its own
FsBlocks_encoding_symbols(base) ==
    CASE base = "Base2" -> Ok(<<"0", "1">>)
      [] base = "Base8" -> Ok(<<"0", "1", "2", "3", "4", "5", "6", "7">>)
      [] base = "Base16Lower" ->
            Ok(<<"0", "1", "2", "3", "4", "5", "6", "7",
                 "8", "9", "a", "b", "c", "d", "e", "f">>)
      [] base = "Base32Z" -> Ok(Base32ZSymbols)
      [] base \in {"Base64", "Base64Url"} -> Ok(Base64UrlSymbols)
      [] OTHER -> Err(FsBlocksError("UnsupportedBaseEncoding"))

\* the table of the code: Base64 and Base64Url share one entry
encoding_symbols(base) ==
    CASE base = "Base2" -> Ok(<<"0", "1">>)
      [] base = "Base8" -> Ok(<<"0", "1", "2", "3", "4", "5", "6", "7">>)
      [] base = "Base16Lower" ->
            Ok(<<"0", "1", "2", "3", "4", "5", "6", "7",
                 "8", "9", "a", "b", "c", "d", "e", "f">>)
      [] base = "Base32Z" -> Ok(Base32ZSymbols)
      [] base \in {"Base64", "Base64Url"} -> Ok(Base64UrlSymbols)
      [] OTHER -> Err("UnsupportedBaseEncoding")

\* multibase Base2: the code character '0', then 8 bits per byte, high bit first.
Bit(b, i) == IF (b \div (2 ^ (8 - i))) % 2 = 1 THEN "1" ELSE "0"
RECURSIVE Base2Bits(_)
Base2Bits(bytes) ==
    IF bytes = <<>> THEN <<>>
    ELSE [i \in 1 .. 8 |-> Bit(Head(bytes), i)] \o Base2Bits(Tail(bytes))

\* The encoder (multibase): the code character of the base, then the bytes in
\* digits of w bits, high bit first, the last digit filled up with zero bits.
Base64StdSymbols ==
    <<"A", "B", "C", "D", "E", "F", "G", "H", "I", "J", "K", "L", "M", "N", "O", "P",
    "Q", "R", "S", "T", "U", "V", "W", "X", "Y", "Z", "a", "b", "c", "d", "e", "f",
    "g", "h", "i", "j", "k", "l", "m", "n", "o", "p", "q", "r", "s", "t", "u", "v",
    "w", "x", "y", "z", "0", "1", "2", "3", "4", "5", "6", "7", "8", "9", "+", "/">>

EncoderSymbols(base) ==
    CASE base = "Base2" -> <<"0", "1">>
      [] base = "Base8" -> <<"0", "1", "2", "3", "4", "5", "6", "7">>
      [] base = "Base16Lower" -> <<"0", "1", "2", "3", "4", "5", "6", "7",
                                   "8", "9", "a", "b", "c", "d", "e", "f">>
      [] base = "Base32Z" -> Base32ZSymbols
      [] base = "Base64" -> Base64StdSymbols
      [] base = "Base64Url" -> Base64UrlSymbols

BaseCode(base) ==
    CASE base = "Base2" -> "0"
      [] base = "Base8" -> "7"
      [] base = "Base16Lower" -> "f"
      [] base = "Base32Z" -> "h"
      [] base = "Base64" -> "m"
      [] base = "Base64Url" -> "u"

DigitBits(base) ==
    CASE base = "Base2" -> 1
      [] base = "Base8" -> 3
      [] base = "Base16Lower" -> 4
      [] base = "Base32Z" -> 5
      [] base \in {"Base64", "Base64Url"} -> 6

\* bit i (from 1) of the bytes, 0 beyond their end
BitAt(bytes, i) ==
    IF i > 8 * Len(bytes) THEN 0
    ELSE (bytes[((i - 1) \div 8) + 1] \div (2 ^ (7 - ((i - 1) % 8)))) % 2

RECURSIVE DigitValue(_, _, _)
DigitValue(bytes, from, w) ==
    IF w = 0 THEN 0
    ELSE BitAt(bytes, from) * (2 ^ (w - 1)) + DigitValue(bytes, from + 1, w - 1)

Digits(base, bytes) ==
    LET w == DigitBits(base)
        n == (8 * Len(bytes) + w - 1) \div w
    IN  [j \in 1 .. n |-> EncoderSymbols(base)[DigitValue(bytes, (j - 1) * w + 1, w) + 1]]

\* BaseEncoded::new(base, id) rendered as a string; Identity renders the bytes
\* as they are after a NUL
encode(base, id) ==
    CASE base = "Base2" -> <<"0">> \o Base2Bits(id)
      [] base = "Identity" -> <<0>> \o id
      [] OTHER -> <<BaseCode(base)>> \o Digits(base, id)

\* ------------------------------------------------------------ path deriver
Root == <<>>

\* Iterator::nth_back(n) on the characters of s: drops n characters from the
\* back and yields the next one, None when there is none left
RECURSIVE nth_back(_, _)
nth_back(s, n) ==
    IF s = <<>> THEN None
    ELSE IF n = 0 THEN Some(s[Len(s)])
    ELSE nth_back(SubSeq(s, 1, Len(s) - 1), n - 1)

\* mutant of get_subfolder: nth in place of nth_back (counted from the start)
get_subfolder_FromStart(eid) ==
    LET l == Len(eid)
    IN  IF l \div 2 >= l THEN Err("InvalidId")
        ELSE Ok(<<eid[(l \div 2) + 1]>>)

\* s.chars().nth_back(l >> 1), or InvalidId
get_subfolder(eid) ==
    LET l == Len(eid)
        c == nth_back(eid, l \div 2)
    IN  IF ~c.some THEN Err("InvalidId")
        ELSE Ok(<<c.cid>>)

\* mutant of get_file: one file name for all the records of a shard
get_file_OnePerShard(subfolder, eid) == Append(subfolder, <<"r">>)

get_file(subfolder, eid) == Append(subfolder, eid)

get_lazy_deleted_file(subfolder, eid) == Append(subfolder, <<".">> \o eid)

get_paths(base, id) ==
    LET eid == encode(base, id)
        sub == get_subfolder(eid)
    IN  IF ~sub.ok THEN sub
        ELSE Ok([eid |-> eid,
                 subfolder |-> sub.val,
                 file |-> get_file(sub.val, eid),
                 lazy_deleted_file |-> get_lazy_deleted_file(sub.val, eid)])

\* tempfile::Builder: prefix ".tmp", random characters (unique per caller),
\* then the suffix "." eid.
\* mutant of TempName: a temp file name without the leading dot
TempName_NoDot(p, eid) == <<"t", "m", "p", p, ".">> \o eid

\* mutant of TempName: one fixed temp file name for every put
TempName_Fixed(p, eid) == <<".", "t", "m", "p">>

TempName(p, eid) == <<".", "t", "m", "p", p, ".">> \o eid
\* mutant of TempPath: put writes in place, at the canonical path
TempPath_InPlace(p, subfolder, eid) == Append(subfolder, eid)

TempPath(p, subfolder, eid) == Append(subfolder, TempName(p, eid))

\* ------------------------------------------------------------- filesystem
\* A file node holds its bytes; `whole` is a history field: the payload the
\* writer of the file was asked to write.
DirNode == [t |-> "d", data |-> <<>>, whole |-> <<>>]
FileNode(d, w) == [t |-> "f", data |-> d, whole |-> w]

try_exists(f, path) == path \in DOMAIN f
is_dir(f, path) == path \in DOMAIN f /\ f[path].t = "d"
is_file(f, path) == path \in DOMAIN f /\ f[path].t = "f"

\* the entries of a directory (their full paths)
read_dir(f, path) ==
    { q \in DOMAIN f : Len(q) = Len(path) + 1 /\ SubSeq(q, 1, Len(path)) = path }

WithNode(f, path, node) ==
    [q \in (DOMAIN f) \cup {path} |-> IF q = path THEN node ELSE f[q]]
Without(f, path) == [q \in (DOMAIN f) \ {path} |-> f[q]]

\* fs::rename(from, to) of a file: replaces what is at `to`
rename(f, from, to) == Without(WithNode(f, to, f[from]), from)

starts_with_dot(path) == Head(path[Len(path)]) = "."

\* ---------------------------------------------------------------- builder
\* Builder::try_build on the filesystem f: the root, and unless lazy every
\* shard directory of the alphabet that does not exist yet.
\* the loop over the subfolders: create_dir_all for each one that does not
\* exist (what exists at such a path is left as it is)
CreateMissing(f, subs) ==
    LET missing == { subs[i] : i \in 1 .. Len(subs) } \ (DOMAIN f)
    IN  [q \in (DOMAIN f) \cup missing |-> IF q \in DOMAIN f THEN f[q] ELSE DirNode]

subfolders(base) ==
    LET symbols == IF kind = "blocks" THEN FsBlocks_encoding_symbols(base)
                   ELSE encoding_symbols(base)
    IN  IF ~symbols.ok THEN symbols
        ELSE Ok([i \in 1 .. Len(symbols.val) |-> <<symbols.val[i]>>])

\* mutant of try_build: the test of the laziness flag is inverted
try_build_Inverted(f, isLazy, base) ==
    LET withRoot == IF try_exists(f, Root) THEN f ELSE WithNode(f, Root, DirNode)
    IN  IF ~isLazy THEN Ok(withRoot)
        ELSE LET subs == subfolders(base)
             IN  IF ~subs.ok THEN subs
                 ELSE Ok(CreateMissing(withRoot, subs.val))

try_build(f, isLazy, base) ==
    LET withRoot == IF try_exists(f, Root) THEN f ELSE WithNode(f, Root, DirNode)
    IN  IF isLazy THEN Ok(withRoot)
        ELSE LET subs == subfolders(base)
             IN  IF ~subs.ok THEN subs
                 ELSE Ok(CreateMissing(withRoot, subs.val))

EmptyDisk == [q \in {} |-> DirNode]

\* what try_build may find at the root path: nothing, or an empty directory
StartDisks == {EmptyDisk, WithNode(EmptyDisk, Root, DirNode)}


\* ------------------------------------------------------------------ state
\* The handle: root (Root), lazy, base_encoding; kind tells which contract the
\* handle implements ("blocks": FsBlocks, "map": FsMultikeyMap / FsVladMap).
base_encoding == "Base2"

\* ---------------------------------------------------------------- builder
\* FsBlocks::preferred_encoding; the builders of the two maps fall back to the
\* same encoding (unwrap_or(Base::Base32Z))
preferred_encoding == "Base32Z"

NoBase == "None"

\* mutant of BuilderNew: the derived Default of the builder (lazy: false)
BuilderNew_Default(root) == [root |-> root, lazy |-> FALSE, base_encoding |-> NoBase]

\* Builder::new(root)
BuilderNew(root) == [root |-> root, lazy |-> TRUE, base_encoding |-> NoBase]

not_lazy(b) == [b EXCEPT !.lazy = FALSE]

with_base_encoding(b, base) == [b EXCEPT !.base_encoding = base]

\* Builder::try_build on the disk f: the handle and the disk it leaves
Builder_try_build(b, f) ==
    LET base == IF b.base_encoding = NoBase THEN preferred_encoding ELSE b.base_encoding
        built == try_build(f, b.lazy, base)
    IN  IF ~built.ok THEN built
        ELSE Ok([root |-> b.root, lazy |-> b.lazy, base_encoding |-> base,
                 fs |-> built.val])

\* the builder of the handle of the run
BuilderOf(isLazy) ==
    LET b == with_base_encoding(BuilderNew(Root), base_encoding)
    IN  IF isLazy THEN b ELSE not_lazy(b)

NoData == <<>>

Idle == [pc |-> "idle", op |-> "none", id |-> <<>>, data |-> <<>>,
         cidfn |-> "none", commit |-> TRUE, v |-> <<>>, prev |-> None,
         n |-> 0, i |-> 0, todo |-> {}, whole |-> <<>>,
         pcalls |-> 0, renamed |-> FALSE, ret |-> Ok(Unit)]

\* history: no call has returned yet, or the last one is not one we follow
NoCall == [op |-> "none", data |-> <<>>, cidfn |-> "none", ret |-> Ok(Unit)]

\* history: the call that has returned, when it is a Blocks::put or a gc that
\* succeeded
LastOf(me) ==
    IF me.ret.ok /\ (me.op = "gc" \/ (me.op = "put" /\ kind = "blocks"))
    THEN [op |-> me.op, data |-> me.data, cidfn |-> me.cidfn, ret |-> me.ret]
    ELSE NoCall

\* the state try_build leaves on one of the disks
InitOn(disks) ==
    /\ lazy \in BOOLEAN
    /\ kind \in {"blocks", "map"}
    /\ \E disk \in disks :
            LET handle == Builder_try_build(BuilderOf(lazy), disk).val
            IN  lazy = handle.lazy /\ fs = handle.fs
    /\ proc = [p \in Procs |-> Idle]
    /\ pre = fs
    /\ calls = 0
    /\ hist = [lastPut |-> [id \in Ids |-> NoData],
               rmLast |-> [id \in Ids |-> NoData],
               last |-> NoCall]

Init == InitOn(StartDisks)

\* a root in which a foreign regular file has the name of one shard directory
ForeignDisks ==
    { WithNode(WithNode(EmptyDisk, Root, DirNode), subfolders(base_encoding).val[i],
               FileNode(<<>>, <<>>)) :
        i \in 1 .. Len(subfolders(base_encoding).val) }

InitForeign == InitOn(ForeignDisks)

\* the paths of the identifier caller p works on
Paths(p) == get_paths(base_encoding, proc[p].id).val
Temp(p) == TempPath(p, Paths(p).subfolder, Paths(p).eid)

Finish(me, result) == [me EXCEPT !.pc = "done", !.ret = result]

\* ------------------------------------------------------------ the callbacks
GetCidFns == {"hash", "const", "fail"}
HashOf(data) == <<8 * ((Len(data) - 1) % NumIds)>>
get_cid(fn, data) ==
    CASE fn = "hash" -> Ok(HashOf(data))
      [] fn = "const" -> Ok(<<0>>)
      [] OTHER -> Err("Custom")

\* ------------------------------------------------------------------ calls
\* A call of a sequential caller (conc = FALSE) records the filesystem it
\* starts from; the calls of interleaved callers are counted and bounded.
Track(conc) ==
    /\ conc => calls < MaxCalls
    /\ calls' = IF conc THEN calls + 1 ELSE calls
    /\ pre' = IF conc THEN pre ELSE fs

CallExists(p, id, conc) ==
    /\ proc[p].pc = "idle"
    /\ proc' = [proc EXCEPT ![p] = [Idle EXCEPT !.pc = "exists_stat", !.op = "exists", !.id = id]]
    /\ Track(conc)
    /\ UNCHANGED <<lazy, kind, fs, hist>>

CallGet(p, id, conc) ==
    /\ proc[p].pc = "idle"
    /\ proc' = [proc EXCEPT ![p] = [Idle EXCEPT !.pc = "get_exists", !.op = "get", !.id = id]]
    /\ Track(conc)
    /\ UNCHANGED <<lazy, kind, fs, hist>>

\* Blocks::put(data, get_cid, pre_commit)
CallPutBlocks(p, data, fn, commit, conc) ==
    /\ proc[p].pc = "idle"
    /\ kind = "blocks"
    /\ proc' = [proc EXCEPT ![p] = [Idle EXCEPT !.pc = "put_get_cid", !.op = "put",
                                    !.data = data, !.cidfn = fn, !.commit = commit]]
    /\ Track(conc)
    /\ UNCHANGED <<lazy, kind, fs, hist>>

\* CidMap::put(id, cid)
CallPutMap(p, id, cid, conc) ==
    /\ proc[p].pc = "idle"
    /\ kind = "map"
    /\ proc' = [proc EXCEPT ![p] = [Idle EXCEPT !.pc = "put_exists", !.op = "put",
                                    !.id = id, !.data = CidToBytes(cid)]]
    /\ Track(conc)
    /\ UNCHANGED <<lazy, kind, fs, hist>>

CallRm(p, id, conc) ==
    /\ proc[p].pc = "idle"
    /\ proc' = [proc EXCEPT ![p] = [Idle EXCEPT !.pc = "get_exists", !.op = "rm", !.id = id]]
    /\ Track(conc)
    /\ hist' = [hist EXCEPT !.lastPut[id] = NoData]
    /\ UNCHANGED <<lazy, kind, fs>>

CallGc(p, conc) ==
    /\ proc[p].pc = "idle"
    /\ proc' = [proc EXCEPT ![p] = [Idle EXCEPT !.pc = "gc_subfolders", !.op = "gc"]]
    /\ Track(conc)
    /\ hist' = [hist EXCEPT !.rmLast = [id \in Ids |-> NoData]]
    /\ UNCHANGED <<lazy, kind, fs>>

\* the caller takes the result
Return(p) ==
    /\ proc[p].pc = "done"
    /\ proc' = [proc EXCEPT ![p] = Idle]
    /\ pre' = IF calls = 0 THEN fs ELSE pre
    /\ hist' = [hist EXCEPT !.last = IF calls = 0 THEN LastOf(proc[p]) ELSE @]
    /\ UNCHANGED <<lazy, kind, fs, calls>>

\* ----------------------------------------------------------------- exists
\* mutant of ExistsStat: a tombstone counts as the record
ExistsStat_Tombstone(p) ==
    /\ proc[p].pc = "exists_stat"
    /\ LET gp == get_paths(base_encoding, proc[p].id)
       IN  proc' = [proc EXCEPT ![p] =
                IF ~gp.ok THEN Finish(@, gp)
                ELSE Finish(@, Ok(try_exists(fs, gp.val.file)
                                  \/ try_exists(fs, gp.val.lazy_deleted_file)))]
    /\ UNCHANGED <<lazy, kind, fs, pre, hist, calls>>

\* exists: get_paths, then file.try_exists()
ExistsStat(p) ==
    /\ proc[p].pc = "exists_stat"
    /\ LET gp == get_paths(base_encoding, proc[p].id)
       IN  proc' = [proc EXCEPT ![p] =
                IF ~gp.ok THEN Finish(@, gp)
                ELSE IF is_file(fs, gp.val.subfolder) THEN Finish(@, Err("Io"))
                ELSE Finish(@, Ok(try_exists(fs, gp.val.file)))]
    /\ UNCHANGED <<lazy, kind, fs, pre, hist, calls>>

\* -------------------------------------------------------------------- get
\* get is also the first part of rm and, in CidMap::put, the read of the
\* previous value (self.get(id).ok()).
\* mutant of ok: the previous value is dropped
ok_None(result) == None

\* Result::ok(): the value of an Ok, None for an Err
ok(result) == IF result.ok THEN Some(result.val) ELSE None

\* mutant of AfterGetErr: CidMap::put passes on the error of its read of the
\* previous value (self.get(id)? in place of self.get(id).ok())
AfterGetErr_Propagate(me, e) == Finish(me, Err(e))

AfterGetErr(me, e) ==
    IF me.op = "put" THEN [me EXCEPT !.prev = ok(Err(e)), !.pc = "put_temp"]
    ELSE Finish(me, Err(e))

AfterGetOk(me, bytes) ==
    IF kind = "map" /\ ~CidParses(bytes) THEN AfterGetErr(me, "Multicid")
    ELSE CASE me.op = "put" -> [me EXCEPT !.prev = ok(Ok(CidFromBytes(bytes))), !.pc = "put_temp"]
           [] me.op = "rm" -> [me EXCEPT !.v = bytes, !.pc = "rm_stat"]
           [] OTHER -> Finish(me, Ok(IF kind = "map" THEN CidFromBytes(bytes) ELSE bytes))

\* mutant of ReadToEnd: one read call of one byte instead of read_to_end
ReadToEnd_Short(node) == SubSeq(node.data, 1, 1)

\* the bytes read_to_end returns for a file node
ReadToEnd(node) == node.data

\* get_paths, then subfolder.try_exists()
GetExists(p) ==
    /\ proc[p].pc = "get_exists"
    /\ LET gp == get_paths(base_encoding, proc[p].id)
       IN  proc' = [proc EXCEPT ![p] =
                IF ~gp.ok THEN AfterGetErr(@, gp.err)
                ELSE IF try_exists(fs, gp.val.subfolder) THEN [@ EXCEPT !.pc = "get_isdir"]
                ELSE AfterGetErr(@, IF kind = "blocks" THEN FsBlocksError("NoSuchBlock")
                                    ELSE "NoSuchData")]
    /\ UNCHANGED <<lazy, kind, fs, pre, hist, calls>>

\* subfolder.is_dir()
GetIsDir(p) ==
    /\ proc[p].pc = "get_isdir"
    /\ proc' = [proc EXCEPT ![p] =
            IF is_dir(fs, Paths(p).subfolder) THEN [@ EXCEPT !.pc = "get_open"]
            ELSE AfterGetErr(@, "NotDir")]
    /\ UNCHANGED <<lazy, kind, fs, pre, hist, calls>>

\* File::open(&file) and read_to_end
GetOpen(p) ==
    /\ proc[p].pc = "get_open"
    /\ proc' = [proc EXCEPT ![p] =
            IF is_file(fs, Paths(p).file)
            THEN AfterGetOk([@ EXCEPT !.whole = fs[Paths(p).file].whole],
                            ReadToEnd(fs[Paths(p).file]))
            ELSE AfterGetErr(@, "Io")]
    /\ UNCHANGED <<lazy, kind, fs, pre, hist, calls>>


\* -------------------------------------------------------------------- put
\* mutant of PutGetCid: the error of get_cid is replaced by a default Cid
\* (unwrap_or_default) and put goes on
PutGetCid_Default(p) ==
    /\ proc[p].pc = "put_get_cid"
    /\ LET cid == get_cid(proc[p].cidfn, proc[p].data)
       IN  proc' = [proc EXCEPT ![p] =
                [@ EXCEPT !.id = IF cid.ok THEN cid.val ELSE <<0>>, !.pc = "put_exists"]]
    /\ UNCHANGED <<lazy, kind, fs, pre, hist, calls>>

\* Blocks::put: the get_cid callback, then get_paths
PutGetCid(p) ==
    /\ proc[p].pc = "put_get_cid"
    /\ LET cid == get_cid(proc[p].cidfn, proc[p].data)
       IN  proc' = [proc EXCEPT ![p] =
                IF ~cid.ok THEN Finish(@, cid)
                ELSE [@ EXCEPT !.id = cid.val, !.pc = "put_exists"]]
    /\ UNCHANGED <<lazy, kind, fs, pre, hist, calls>>

\* get_paths, then subfolder.try_exists()
PutExists(p) ==
    /\ proc[p].pc = "put_exists"
    /\ LET gp == get_paths(base_encoding, proc[p].id)
       IN  proc' = [proc EXCEPT ![p] =
                IF ~gp.ok THEN Finish(@, gp)
                ELSE IF try_exists(fs, gp.val.subfolder) THEN [@ EXCEPT !.pc = "put_isdir"]
                ELSE [@ EXCEPT !.pc = "put_mkdir"]]
    /\ UNCHANGED <<lazy, kind, fs, pre, hist, calls>>

\* where put goes once the shard directory is there: Blocks::put creates the
\* temp file, CidMap::put first reads the previous value
\* mutant of AfterSubfolder: Blocks::put calls pre_commit before it creates and
\* writes the temp file
AfterSubfolder_CommitFirst(me) ==
    [me EXCEPT !.pc = IF kind = "map" THEN "get_exists" ELSE "put_pre_commit"]

AfterSubfolder(me) ==
    [me EXCEPT !.pc = IF kind = "map" THEN "get_exists" ELSE "put_temp"]

\* mutant of PutIsDir: put does not look at what is at the shard path
PutIsDir_Skip(p) ==
    /\ proc[p].pc = "put_isdir"
    /\ proc' = [proc EXCEPT ![p] = AfterSubfolder(@)]
    /\ UNCHANGED <<lazy, kind, fs, pre, hist, calls>>

\* subfolder.is_dir()
PutIsDir(p) ==
    /\ proc[p].pc = "put_isdir"
    /\ proc' = [proc EXCEPT ![p] =
            IF is_dir(fs, Paths(p).subfolder) THEN AfterSubfolder(@)
            ELSE Finish(@, Err("NotDir"))]
    /\ UNCHANGED <<lazy, kind, fs, pre, hist, calls>>

\* mutant of PutMkdir: fs::create_dir, which fails when the directory is there
PutMkdir_CreateDir(p) ==
    /\ proc[p].pc = "put_mkdir"
    /\ LET sub == Paths(p).subfolder
       IN  IF try_exists(fs, sub)
           THEN /\ proc' = [proc EXCEPT ![p] = Finish(@, Err("Io"))]
                /\ fs' = fs
           ELSE /\ proc' = [proc EXCEPT ![p] = AfterSubfolder(@)]
                /\ fs' = WithNode(fs, sub, DirNode)
    /\ UNCHANGED <<lazy, kind, pre, hist, calls>>

\* fs::create_dir_all(&subfolder): Ok when the directory is already there
PutMkdir(p) ==
    /\ proc[p].pc = "put_mkdir"
    /\ LET sub == Paths(p).subfolder
       IN  IF is_dir(fs, sub)
           THEN /\ proc' = [proc EXCEPT ![p] = AfterSubfolder(@)]
                /\ fs' = fs
           ELSE IF try_exists(fs, sub)
           THEN /\ proc' = [proc EXCEPT ![p] = Finish(@, Err("Io"))]
                /\ fs' = fs
           ELSE /\ proc' = [proc EXCEPT ![p] = AfterSubfolder(@)]
                /\ fs' = WithNode(fs, sub, DirNode)
    /\ UNCHANGED <<lazy, kind, pre, hist, calls>>

\* tempfile::Builder::new().suffix(".eid").tempfile_in(&subfolder)
PutTemp(p) ==
    /\ proc[p].pc = "put_temp"
    /\ IF is_dir(fs, Paths(p).subfolder)
       THEN /\ fs' = WithNode(fs, Temp(p), FileNode(<<>>, proc[p].data))
            /\ proc' = [proc EXCEPT ![p].pc = "put_write", ![p].n = 0]
       ELSE /\ fs' = fs
            /\ proc' = [proc EXCEPT ![p] = Finish(@, Err("Io"))]
    /\ UNCHANGED <<lazy, kind, pre, hist, calls>>

\* mutant of AfterWrite: put goes on after the first write call
AfterWrite_Early(n, len) ==
    IF kind = "map" THEN "put_persist" ELSE "put_pre_commit"

\* what follows the complete write: Blocks::put calls pre_commit, CidMap::put
\* persists at once
AfterWrite(n, len) ==
    IF n < len THEN "put_write"
    ELSE IF kind = "map" THEN "put_persist" ELSE "put_pre_commit"

\* temp.write_all(data): one write call of k bytes through the open handle
\* (the bytes reach the file also when its name has been unlinked meanwhile)
PutWrite(p) ==
    /\ proc[p].pc = "put_write"
    /\ \E k \in 1 .. (Len(proc[p].data) - proc[p].n) :
        LET n2 == proc[p].n + k
        IN  /\ proc' = [proc EXCEPT ![p].n = n2,
                                    ![p].pc = AfterWrite(n2, Len(proc[p].data))]
            /\ fs' = IF try_exists(fs, Temp(p))
                     THEN WithNode(fs, Temp(p), FileNode(SubSeq(proc[p].data, 1, n2), proc[p].data))
                     ELSE fs
    /\ UNCHANGED <<lazy, kind, pre, hist, calls>>

\* mutant of DropTemp: the temp file is kept (a handle that is not removed on drop)
DropTemp_Keep(f, path) == f

\* dropping the NamedTempFile removes the file at its path, if it is there
DropTemp(f, path) == IF try_exists(f, path) THEN Without(f, path) ELSE f

\* mutant of PutPreCommit: the result of pre_commit is ignored
PutPreCommit_Ignore(p) ==
    /\ proc[p].pc = "put_pre_commit"
    /\ proc' = [proc EXCEPT ![p].pc = "put_persist", ![p].pcalls = @ + 1]
    /\ UNCHANGED <<lazy, kind, fs, pre, hist, calls>>

\* pre_commit(&cid)?: on Err put returns it, and the temp handle is dropped;
\* pcalls counts the calls of the callback
PutPreCommit(p) ==
    /\ proc[p].pc = "put_pre_commit"
    /\ IF proc[p].commit
       THEN /\ proc' = [proc EXCEPT ![p].pc = "put_persist", ![p].pcalls = @ + 1]
            /\ fs' = fs
       ELSE /\ proc' = [proc EXCEPT ![p] = Finish([@ EXCEPT !.pcalls = @ + 1], Err("Custom"))]
            /\ fs' = DropTemp(fs, Temp(p))
    /\ UNCHANGED <<lazy, kind, pre, hist, calls>>

\* what put returns on success: the Cid (Blocks) or the previous value (CidMap)
PutResult(me) == IF kind = "map" THEN Ok(me.prev) ELSE Ok(me.id)

\* mutant of Persisted: the rename is not made when the file is there, and the
\* temp file stays
Persisted_Exclusive(f, temp, file) ==
    IF try_exists(f, file) THEN f ELSE rename(f, temp, file)

\* mutant of Persisted: persist_noclobber, which keeps a file that is there
Persisted_NoClobber(f, temp, file) ==
    IF try_exists(f, file) THEN Without(f, temp) ELSE rename(f, temp, file)

\* mutant of Persisted: the rename also clears the tombstone of the record
Persisted_ClearTombstone(f, temp, file) ==
    LET g == rename(f, temp, file)
    IN  [q \in (DOMAIN g) \ {<<file[1], <<".">> \o file[2]>>} |-> g[q]]

\* the filesystem after temp.persist(&file) has renamed the temp file
Persisted(f, temp, file) == rename(f, temp, file)

\* mutant of PutPersist: the error of persist is ignored
PutPersist_IgnoreError(p) ==
    /\ proc[p].pc = "put_persist"
    /\ IF try_exists(fs, Temp(p))
       THEN /\ fs' = Persisted(fs, Temp(p), Paths(p).file)
            /\ proc' = [proc EXCEPT ![p] = Finish([@ EXCEPT !.renamed = TRUE], PutResult(@))]
            /\ hist' = [hist EXCEPT !.lastPut[proc[p].id] = proc[p].data]
       ELSE /\ fs' = fs
            /\ proc' = [proc EXCEPT ![p] = Finish(@, PutResult(@))]
            /\ hist' = hist
    /\ UNCHANGED <<lazy, kind, pre, calls>>

\* mutant of PutPersist: when the temp file is gone and the shard directory is
\* there, the data is written at the canonical path and put returns Ok
PutPersist_Recreate(p) ==
    /\ proc[p].pc = "put_persist"
    /\ IF try_exists(fs, Temp(p))
       THEN /\ fs' = Persisted(fs, Temp(p), Paths(p).file)
            /\ proc' = [proc EXCEPT ![p] = Finish([@ EXCEPT !.renamed = TRUE], PutResult(@))]
            /\ hist' = [hist EXCEPT !.lastPut[proc[p].id] = proc[p].data]
       ELSE IF is_dir(fs, Paths(p).subfolder)
       THEN /\ fs' = WithNode(fs, Paths(p).file, FileNode(proc[p].data, proc[p].data))
            /\ proc' = [proc EXCEPT ![p] = Finish(@, PutResult(@))]
            /\ hist' = [hist EXCEPT !.lastPut[proc[p].id] = proc[p].data]
       ELSE /\ fs' = fs
            /\ proc' = [proc EXCEPT ![p] = Finish(@, Err("Persist"))]
            /\ hist' = hist
    /\ UNCHANGED <<lazy, kind, pre, calls>>

\* temp.persist(&file): rename the temp file onto the canonical path
PutPersist(p) ==
    /\ proc[p].pc = "put_persist"
    /\ IF try_exists(fs, Temp(p))
       THEN /\ fs' = Persisted(fs, Temp(p), Paths(p).file)
            /\ proc' = [proc EXCEPT ![p] = Finish([@ EXCEPT !.renamed = TRUE], PutResult(@))]
            /\ hist' = [hist EXCEPT !.lastPut[proc[p].id] = proc[p].data]
       ELSE /\ fs' = fs
            /\ proc' = [proc EXCEPT ![p] = Finish(@, Err("Persist"))]
            /\ hist' = hist
    /\ UNCHANGED <<lazy, kind, pre, calls>>

\* --------------------------------------------------------------------- rm
\* rm returns the value its get read
RmReturn(p) ==
    /\ proc' = [proc EXCEPT ![p] =
            Finish(@, Ok(IF kind = "map" THEN CidFromBytes(@.v) ELSE @.v))]
    /\ hist' = [hist EXCEPT !.rmLast[proc[p].id] = proc[p].v]

\* mutant of RmStat: rm fails when the file it has read is gone
RmStat_Strict(p) ==
    /\ proc[p].pc = "rm_stat"
    /\ proc' = [proc EXCEPT ![p] =
            IF is_file(fs, Paths(p).file) THEN [@ EXCEPT !.pc = "rm_unlink"]
            ELSE Finish(@, Err("NoSuchData"))]
    /\ UNCHANGED <<lazy, kind, fs, pre, hist, calls>>

\* file.try_exists()? && file.is_file()
RmStat(p) ==
    /\ proc[p].pc = "rm_stat"
    /\ proc' = [proc EXCEPT ![p].pc =
            IF is_file(fs, Paths(p).file) THEN "rm_unlink" ELSE "rm_dirstat"]
    /\ UNCHANGED <<lazy, kind, fs, pre, hist, calls>>

\* mutant of Removed: the lazy rm copies the file to the tombstone path and
\* leaves it at the canonical path
Removed_Copy(f, file, lazy_deleted_file) ==
    IF lazy THEN WithNode(f, lazy_deleted_file, f[file]) ELSE Without(f, file)

\* mutant of Removed: a not-lazy rm removes the shard directory with all it holds
\* (remove_dir_all)
Removed_DirAll(f, file, lazy_deleted_file) ==
    IF lazy THEN rename(f, file, lazy_deleted_file)
    ELSE [q \in { r \in DOMAIN f : r = <<>> \/ Head(r) # Head(file) } |-> f[q]]

\* mutant of Removed: rm renames to the tombstone path also when not lazy
Removed_Rename(f, file, lazy_deleted_file) == rename(f, file, lazy_deleted_file)

\* mutant of Removed: rm unlinks also when lazy
Removed_Unlink(f, file, lazy_deleted_file) == Without(f, file)

\* the filesystem after rm has taken the file away: renamed to the tombstone
\* path when lazy, unlinked when not
Removed(f, file, lazy_deleted_file) ==
    IF lazy THEN rename(f, file, lazy_deleted_file) ELSE Without(f, file)

\* fs::rename(&file, &lazy_deleted_file) or fs::remove_file(&file)
RmUnlink(p) ==
    /\ proc[p].pc = "rm_unlink"
    /\ IF is_file(fs, Paths(p).file)
       THEN /\ fs' = Removed(fs, Paths(p).file, Paths(p).lazy_deleted_file)
            /\ proc' = [proc EXCEPT ![p].pc = "rm_dirstat"]
       ELSE /\ fs' = fs
            /\ proc' = [proc EXCEPT ![p] = Finish(@, Err("Io"))]
    /\ UNCHANGED <<lazy, kind, pre, hist, calls>>

\* subfolder.try_exists()? && subfolder.is_dir()
RmDirStat(p) ==
    /\ proc[p].pc = "rm_dirstat"
    /\ IF is_dir(fs, Paths(p).subfolder)
       THEN /\ proc' = [proc EXCEPT ![p].pc = "rm_readdir"]
            /\ hist' = hist
       ELSE RmReturn(p)
    /\ UNCHANGED <<lazy, kind, fs, pre, calls>>

\* mutant of RmWantsRmdir: rm never removes the shard directory
RmWantsRmdir_Never(entries) == FALSE

\* should rm remove the shard directory it has just read?
RmWantsRmdir(entries) == entries = {} /\ ~lazy

\* fs::read_dir(&subfolder)?.count() == 0 && !self.lazy
RmReadDir(p) ==
    /\ proc[p].pc = "rm_readdir"
    /\ IF ~is_dir(fs, Paths(p).subfolder)
       THEN /\ proc' = [proc EXCEPT ![p] = Finish(@, Err("Io"))]
            /\ hist' = hist
       ELSE IF RmWantsRmdir(read_dir(fs, Paths(p).subfolder))
       THEN /\ proc' = [proc EXCEPT ![p].pc = "rm_rmdir"]
            /\ hist' = hist
       ELSE RmReturn(p)
    /\ UNCHANGED <<lazy, kind, fs, pre, calls>>

\* fs::remove_dir(&subfolder): fails on a missing or a non-empty directory
RmRmdir(p) ==
    /\ proc[p].pc = "rm_rmdir"
    /\ IF is_dir(fs, Paths(p).subfolder) /\ read_dir(fs, Paths(p).subfolder) = {}
       THEN /\ fs' = Without(fs, Paths(p).subfolder)
            /\ RmReturn(p)
       ELSE /\ fs' = fs
            /\ proc' = [proc EXCEPT ![p] = Finish(@, Err("Io"))]
            /\ hist' = hist
    /\ UNCHANGED <<lazy, kind, pre, calls>>

\* --------------------------------------------------------------------- gc
\* Self::subfolders(Some(self.encoding()), &self.root): creates the root when
\* it is missing, and lists the shard directories of the alphabet
GcSubfolders(p) ==
    /\ proc[p].pc = "gc_subfolders"
    /\ fs' = IF try_exists(fs, Root) THEN fs ELSE WithNode(fs, Root, DirNode)
    /\ proc' = [proc EXCEPT ![p] =
            IF subfolders(base_encoding).ok THEN [@ EXCEPT !.pc = "gc_exists", !.i = 1]
            ELSE Finish(@, subfolders(base_encoding))]
    /\ UNCHANGED <<lazy, kind, pre, hist, calls>>

GcSubfolder(p) == subfolders(base_encoding).val[proc[p].i]

\* the loop head, and subfolder.try_exists()
GcExists(p) ==
    /\ proc[p].pc = "gc_exists"
    /\ proc' = [proc EXCEPT ![p] =
            IF @.i > Len(subfolders(base_encoding).val) THEN Finish(@, Ok(Unit))
            ELSE IF try_exists(fs, GcSubfolder(p)) THEN [@ EXCEPT !.pc = "gc_readdir"]
            ELSE [@ EXCEPT !.i = @ + 1]]
    /\ UNCHANGED <<lazy, kind, fs, pre, hist, calls>>

\* mutant of GcSelects: gc removes temp files only
GcSelects_TempOnly(entries) ==
    { q \in entries : Len(q[Len(q)]) > 4 /\ SubSeq(q[Len(q)], 1, 4) = <<".", "t", "m", "p">> }

\* mutant of GcSelects: gc removes every entry of the shard directory
GcSelects_All(entries) == entries

\* mutant of GcSelects: gc removes the first such entry only (the loop is left
\* after one removal)
GcSelects_First(entries) ==
    LET dotted == { q \in entries : starts_with_dot(q) }
    IN  IF dotted = {} THEN {} ELSE { CHOOSE q \in dotted : TRUE }

\* mutant of GcSelects: gc also removes the record a tombstone names
GcSelects_Named(entries) ==
    { q \in entries : starts_with_dot(q) \/ <<q[1], <<".">> \o q[2]>> \in entries }

\* the entries of a listing that gc removes
GcSelects(entries) == { q \in entries : starts_with_dot(q) }

\* fs::read_dir(subfolder): the listing gc iterates over
GcReadDir(p) ==
    /\ proc[p].pc = "gc_readdir"
    /\ proc' = [proc EXCEPT ![p] =
            IF is_dir(fs, GcSubfolder(p))
            THEN [@ EXCEPT !.pc = "gc_file", !.todo = GcSelects(read_dir(fs, GcSubfolder(p)))]
            ELSE Finish(@, Err("Io"))]
    /\ UNCHANGED <<lazy, kind, fs, pre, hist, calls>>

\* one turn of the inner loop: fs::remove_file of the next entry whose name
\* starts with '.', in the order the listing yields them
GcFile(p) ==
    /\ proc[p].pc = "gc_file"
    /\ IF proc[p].todo = {}
       THEN /\ proc' = [proc EXCEPT ![p].pc = "gc_count"]
            /\ fs' = fs
       ELSE \E q \in proc[p].todo :
            IF is_file(fs, q)
            THEN /\ fs' = Without(fs, q)
                 /\ proc' = [proc EXCEPT ![p].todo = @ \ {q}]
            ELSE /\ fs' = fs
                 /\ proc' = [proc EXCEPT ![p] = Finish([@ EXCEPT !.todo = {}], Err("Io"))]
    /\ UNCHANGED <<lazy, kind, pre, hist, calls>>

\* should gc remove the shard directory it has just counted?
GcWantsRmdir(entries) == Cardinality(entries) = 0

\* fs::read_dir(subfolder)?.count() == 0
GcCount(p) ==
    /\ proc[p].pc = "gc_count"
    /\ proc' = [proc EXCEPT ![p] =
            IF ~is_dir(fs, GcSubfolder(p)) THEN Finish(@, Err("Io"))
            ELSE IF GcWantsRmdir(read_dir(fs, GcSubfolder(p))) THEN [@ EXCEPT !.pc = "gc_rmdir"]
            ELSE [@ EXCEPT !.pc = "gc_exists", !.i = @ + 1]]
    /\ UNCHANGED <<lazy, kind, fs, pre, hist, calls>>

\* fs::remove_dir(subfolder)
GcRmdir(p) ==
    /\ proc[p].pc = "gc_rmdir"
    /\ IF is_dir(fs, GcSubfolder(p)) /\ read_dir(fs, GcSubfolder(p)) = {}
       THEN /\ fs' = Without(fs, GcSubfolder(p))
            /\ proc' = [proc EXCEPT ![p].pc = "gc_exists", ![p].i = @ + 1]
       ELSE /\ fs' = fs
            /\ proc' = [proc EXCEPT ![p] = Finish(@, Err("Io"))]
    /\ UNCHANGED <<lazy, kind, pre, hist, calls>>

\* ------------------------------------------------------- specifications
Call(p, conc) ==
    \/ \E id \in Ids : CallExists(p, id, conc)
    \/ \E id \in Ids : CallGet(p, id, conc)
    \/ \E data \in Payloads, fn \in GetCidFns, commit \in BOOLEAN :
            CallPutBlocks(p, data, fn, commit, conc)
    \/ \E id \in Ids, cid \in Cids : CallPutMap(p, id, cid, conc)
    \/ \E id \in Ids : CallRm(p, id, conc)
    \/ CallGc(p, conc)

Read(p, conc) ==
    \/ \E id \in Ids : CallExists(p, id, conc)
    \/ \E id \in Ids : CallGet(p, id, conc)

Step(p) ==
    \/ Return(p)
    \/ ExistsStat(p)
    \/ GetExists(p) \/ GetIsDir(p) \/ GetOpen(p)
    \/ PutGetCid(p) \/ PutExists(p) \/ PutIsDir(p) \/ PutMkdir(p) \/ PutTemp(p)
    \/ PutWrite(p) \/ PutPreCommit(p) \/ PutPersist(p)
    \/ RmStat(p) \/ RmUnlink(p) \/ RmDirStat(p) \/ RmReadDir(p) \/ RmRmdir(p)
    \/ GcSubfolders(p) \/ GcExists(p) \/ GcReadDir(p) \/ GcFile(p) \/ GcCount(p) \/ GcRmdir(p)

\* one caller: every call runs to its end before the next one is made
Next == Call(MainProc, FALSE) \/ Step(MainProc)

Spec == Init /\ [][Next]_vars

\* a caller that runs any calls one after the other, and a second caller
\* whose get and exists calls are interleaved with the steps of the first
NextRW ==
    \/ Call(MainProc, TRUE) \/ Step(MainProc)
    \/ Read(Reader, TRUE) \/ Step(Reader)

SpecRW == Init /\ [][NextRW]_vars

\* a caller that runs any calls one after the other, and a second caller whose
\* gc calls are interleaved with the steps of the first
NextGC ==
    \/ Call(MainProc, TRUE) \/ Step(MainProc)
    \/ CallGc(Reader, TRUE) \/ Step(Reader)

SpecGC == Init /\ [][NextGC]_vars

\* the put calls of a caller, and the steps a put call takes
CallPut(p, conc) ==
    \/ \E data \in Payloads, fn \in GetCidFns, commit \in BOOLEAN :
            CallPutBlocks(p, data, fn, commit, conc)
    \/ \E id \in Ids, cid \in Cids : CallPutMap(p, id, cid, conc)

StepPut(p) ==
    \/ Return(p)
    \/ GetExists(p) \/ GetIsDir(p) \/ GetOpen(p)
    \/ PutGetCid(p) \/ PutExists(p) \/ PutIsDir(p) \/ PutMkdir(p) \/ PutTemp(p)
    \/ PutWrite(p) \/ PutPreCommit(p) \/ PutPersist(p)

\* two callers whose put calls are interleaved step by step
NextPP == \E p \in Procs : CallPut(p, TRUE) \/ StepPut(p)

SpecPP == Init /\ [][NextPP]_vars

\* the files some put has created as its temp file
TempFiles(f) ==
    { q \in DOMAIN f : Len(q) = 2 /\ Len(q[2]) > 4 /\ SubSeq(q[2], 1, 4) = <<".", "t", "m", "p">> }

\* the process stops inside a put, between two of its steps and before the
\* rename has been made: the NamedTempFile is not dropped, so that the temp
\* file stays as far as it was written. One put at a time is interrupted: the
\* put was called on a root without the temp file of an earlier one.
Crash(p) ==
    /\ proc[p].op = "put"
    /\ TempFiles(pre) = {}
    /\ proc[p].pc \notin {"idle", "done", "crashed"}
    /\ proc' = [proc EXCEPT ![p].pc = "crashed"]
    /\ UNCHANGED <<lazy, kind, fs, pre, hist, calls>>

\* the next process builds its handle again, on the root as the crash left it
Restart(p) ==
    /\ proc[p].pc = "crashed"
    /\ proc' = [proc EXCEPT ![p] = Idle]
    /\ fs' = Builder_try_build(BuilderOf(lazy), fs).val.fs
    /\ pre' = fs'
    /\ UNCHANGED <<lazy, kind, hist, calls>>

StepGc(p) ==
    \/ GcSubfolders(p) \/ GcExists(p) \/ GcReadDir(p)
    \/ GcFile(p) \/ GcCount(p) \/ GcRmdir(p)

\* one caller that makes put and gc calls and may stop inside any put
NextCrash ==
    \/ CallPut(MainProc, FALSE) \/ StepPut(MainProc)
    \/ CallGc(MainProc, FALSE) \/ StepGc(MainProc)
    \/ Crash(MainProc) \/ Restart(MainProc)

SpecCrash == Init /\ [][NextCrash]_vars

\* the steps an rm call takes, after which the caller takes the result
StepRm(p) ==
    \/ GetExists(p) \/ GetIsDir(p) \/ GetOpen(p)
    \/ RmStat(p) \/ RmUnlink(p) \/ RmDirStat(p) \/ RmReadDir(p) \/ RmRmdir(p)

\* a caller that makes put calls, and a second caller whose rm and gc calls
\* are interleaved with the steps of the first
NextRG ==
    \/ CallPut(MainProc, TRUE) \/ StepPut(MainProc)
    \/ \E id \in Ids : CallRm(Reader, id, TRUE)
    \/ CallGc(Reader, TRUE)
    \/ Return(Reader) \/ StepRm(Reader) \/ StepGc(Reader)

SpecRG == Init /\ [][NextRG]_vars

\* a caller that makes put and rm calls, and a second caller whose rm calls
\* are interleaved with the steps of the first
NextPR ==
    \/ CallPut(MainProc, TRUE)
    \/ StepPut(MainProc)
    \/ \E p \in Procs, id \in Ids : CallRm(p, id, TRUE)
    \/ Return(Reader)
    \/ \E p \in Procs : StepRm(p)

SpecPR == Init /\ [][NextPR]_vars

\* one caller on a root that holds a foreign file in the place of a shard
SpecForeign == InitForeign /\ [][Next]_vars


\* ================================================================ claims
\* the paths of an identifier, the main caller, what a caller's result is
File(id) == get_paths(base_encoding, id).val.file
Tomb(id) == get_paths(base_encoding, id).val.lazy_deleted_file
Shard(id) == get_paths(base_encoding, id).val.subfolder
Live(f, id) == is_file(f, File(id))
Tombstoned(f, id) == is_file(f, Tomb(id))
M == proc[MainProc]
Returned(p, op) == proc[p].pc = "done" /\ proc[p].op = op
\* the bytes of the value a get or an rm has returned
RetBytes(p) == IF kind = "map" THEN CidToBytes(proc[p].ret.val) ELSE proc[p].ret.val
\* pre_commit was called in the call that has returned, and it returned an error
PreCommitFailed == kind = "blocks" /\ Returned(MainProc, "put") /\ M.pcalls = 1 /\ ~M.commit

\* C1: with the steps of put interleaved with the get and exists calls of another
\* caller, every file at a canonical path holds the complete, non-empty payload
\* of the put that renamed it there, and every get that succeeds returns such a
\* complete payload: never an empty or partially written one.
C1_AtomicVisibility ==
    /\ \A id \in Ids : Live(fs, id) =>
            /\ fs[File(id)].data = fs[File(id)].whole
            /\ fs[File(id)].data # <<>>
    /\ \A p \in Procs : (Returned(p, "get") /\ proc[p].ret.ok) =>
            /\ RetBytes(p) = proc[p].whole
            /\ RetBytes(p) # <<>>

\* a get of the reader has returned a payload while a put of the same id by
\* the other caller has written part of its temp file
C1_Witness ==
    /\ Returned(Reader, "get") /\ proc[Reader].ret.ok
    /\ M.op = "put" /\ M.pc = "put_write" /\ M.id = proc[Reader].id
    /\ M.n > 0 /\ M.n < Len(M.data)
    /\ try_exists(fs, Temp(MainProc))

\* C2: Blocks round trip, lazy or not: a get(id) that follows a successful
\* put(d) that returned id, with no rm of id in between, returns exactly d.
C2_BlocksRoundTrip ==
    (kind = "blocks" /\ Returned(MainProc, "get") /\ hist.lastPut[M.id] # NoData)
        => M.ret = Ok(hist.lastPut[M.id])

C2_Witness ==
    /\ kind = "blocks" /\ ~lazy
    /\ Returned(MainProc, "get") /\ hist.lastPut[M.id] # NoData /\ M.ret.ok

\* C3: CidMap overwrite: a successful put(id, c) leaves c at the canonical path
\* whatever was mapped before, and a get(id) with no rm of id in between
\* returns the address of the most recent put.
C3_CidMapOverwrite ==
    /\ (kind = "map" /\ Returned(MainProc, "put") /\ M.ret.ok)
            => (Live(fs, M.id) /\ fs[File(M.id)].data = M.data)
    /\ (kind = "map" /\ Returned(MainProc, "get") /\ hist.lastPut[M.id] # NoData)
            => (M.ret.ok /\ CidToBytes(M.ret.val) = hist.lastPut[M.id])

\* a put has replaced a different address that was mapped before
C3_Witness ==
    /\ kind = "map" /\ Returned(MainProc, "put") /\ M.ret.ok
    /\ M.ret.val.some /\ CidToBytes(M.ret.val.cid) # M.data
    /\ fs[File(M.id)].data = M.data

\* C4: CidMap put returns Some(p) exactly when id was Live with address p when
\* the call was made, and None exactly when it was not Live (Absent or
\* Tombstoned).
C4_PutReturnsPrevious ==
    (kind = "map" /\ Returned(MainProc, "put") /\ M.ret.ok) =>
        M.ret.val = IF Live(pre, M.id) THEN Some(CidFromBytes(pre[File(M.id)].data))
                    ELSE None

\* a put on a Tombstoned id has returned None
C4_Witness ==
    /\ kind = "map" /\ Returned(MainProc, "put") /\ M.ret.ok
    /\ Tombstoned(pre, M.id) /\ ~Live(pre, M.id) /\ M.ret.val = None

\* C5: when pre_commit returns an error, Blocks::put returns that error, the
\* rename is not performed, what is at the canonical path is what was there
\* before, and an id that was not Live before the call is not Live after it.
C5_PreCommitAbort ==
    PreCommitFailed =>
        /\ M.ret = Err("Custom")
        /\ ~M.renamed
        /\ Live(fs, M.id) = Live(pre, M.id)
        /\ Live(pre, M.id) => fs[File(M.id)] = pre[File(M.id)]
        /\ ~Live(pre, M.id) => ~try_exists(fs, File(M.id))

C5_Witness == PreCommitFailed /\ ~Live(pre, M.id) /\ is_dir(fs, Shard(M.id))

RemovedSince(id) == hist.rmLast[id] # NoData /\ hist.lastPut[id] = NoData
\* an rm(id) is under way
RmRunning(id) == M.op = "rm" /\ M.id = id /\ M.pc # "done"

\* C7: lazy rm post-state: when rm(id) on a Live record has returned Ok(d), the
\* canonical path does not exist and the tombstone path holds exactly d; an
\* exists(id) that follows returns false and a get(id) that follows fails.
C7_LazyRmPostState ==
    lazy =>
        /\ (Returned(MainProc, "rm") /\ M.ret.ok) =>
                /\ ~try_exists(fs, File(M.id))
                /\ Tombstoned(fs, M.id)
                /\ fs[Tomb(M.id)].data = RetBytes(MainProc)
        /\ (Returned(MainProc, "exists") /\ RemovedSince(M.id)) => M.ret = Ok(FALSE)
        /\ (Returned(MainProc, "get") /\ RemovedSince(M.id)) => ~M.ret.ok

C7_Witness ==
    /\ lazy /\ Returned(MainProc, "get") /\ RemovedSince(M.id)
    /\ Tombstoned(fs, M.id) /\ ~M.ret.ok

\* C8 as stated, on a CidMap handle: in lazy mode, once rm(id) has returned
\* payload d, the tombstone path of id holds exactly d after every step of a
\* put, rm, get or exists call (gc not being run).
C8_TombstoneKeepsPayload ==
    [][\A id \in Ids :
        (lazy /\ kind = "map" /\ hist.rmLast[id] # NoData /\ hist'.rmLast[id] # NoData)
            => (Tombstoned(fs', id) /\ fs'[Tomb(id)].data = hist.rmLast[id])]_vars

\* C8 amended: in lazy mode, once rm(id) has returned, the tombstone path of id
\* exists in every later state until gc is run, and whenever no rm(id) is under
\* way it holds the payload returned by the most recent rm(id).
C8_TombstoneHoldsLastRemoved ==
    \A id \in Ids : (lazy /\ hist.rmLast[id] # NoData) =>
        /\ Tombstoned(fs, id)
        /\ ~RmRunning(id) => fs[Tomb(id)].data = hist.rmLast[id]

\* after rm(id) returned d, a put has made id Live again with another payload
C8_Witness ==
    /\ lazy /\ Returned(MainProc, "put") /\ M.ret.ok
    /\ hist.rmLast[M.id] # NoData /\ hist.rmLast[M.id] # M.data
    /\ Tombstoned(fs, M.id)

\* C9: not-lazy rm: when rm(id) has returned Ok, neither the canonical file nor
\* a tombstone of id exists; the shard directory is removed when id was its
\* only entry, and is still there with its other entries when it had others.
C9_NotLazyRmCleanup ==
    (~lazy /\ Returned(MainProc, "rm") /\ M.ret.ok) =>
        LET rest == read_dir(pre, Shard(M.id)) \ {File(M.id)}
        IN  /\ ~try_exists(fs, File(M.id))
            /\ ~try_exists(fs, Tomb(M.id))
            /\ rest = {} => ~try_exists(fs, Shard(M.id))
            /\ rest # {} => (is_dir(fs, Shard(M.id)) /\ read_dir(fs, Shard(M.id)) = rest)

\* an rm that removed its shard directory
C9_Witness ==
    /\ ~lazy /\ Returned(MainProc, "rm") /\ M.ret.ok
    /\ Live(pre, M.id) /\ read_dir(pre, Shard(M.id)) = {File(M.id)}
    /\ ~try_exists(fs, Shard(M.id))

\* C10: when gc has returned Ok, no shard directory of the alphabet holds an
\* entry whose name begins with '.', and none is empty; a record that was a
\* tombstone alone in its shard directory has left no file and no directory.
C10_GcPostcondition ==
    (Returned(MainProc, "gc") /\ M.ret.ok) =>
        /\ \A i \in 1 .. Len(subfolders(base_encoding).val) :
            LET s == subfolders(base_encoding).val[i]
            IN  try_exists(fs, s) =>
                    /\ \A q \in read_dir(fs, s) : ~starts_with_dot(q)
                    /\ read_dir(fs, s) # {}
        /\ \A id \in Ids :
            (Tombstoned(pre, id) /\ read_dir(pre, Shard(id)) = {Tomb(id)}) =>
                /\ ~try_exists(fs, File(id))
                /\ ~try_exists(fs, Tomb(id))
                /\ ~try_exists(fs, Shard(id))

C10_Witness ==
    /\ Returned(MainProc, "gc") /\ M.ret.ok
    /\ \E id \in Ids :
        /\ Tombstoned(pre, id) /\ read_dir(pre, Shard(id)) = {Tomb(id)}
        /\ ~try_exists(fs, Shard(id))

\* C11: gc idempotence: when gc is called right after a gc that returned Ok,
\* with no call in between, the second gc leaves exactly the files and
\* directories (and their bytes) that the first one left.
C11_GcIdempotent ==
    (Returned(MainProc, "gc") /\ hist.last.op = "gc") => fs = pre

\* a second gc in a row has returned on a store that holds a Live record
C11_Witness ==
    /\ Returned(MainProc, "gc") /\ M.ret.ok /\ hist.last.op = "gc"
    /\ \E id \in Ids : Live(fs, id)

\* a step of a gc call of caller p
GcStep(p) == proc[p].op = "gc" /\ proc'[p] # proc[p]

\* C12: gc preserves committed data: no step of a gc call, also one taken
\* while a put or rm call of another caller is under way, removes or changes
\* the file of a Live record or removes the shard directory that holds it; so
\* a record that is Live when gc starts and that no other call works on is
\* Live with the same bytes, in its shard directory, when gc ends.
C12_GcPreservesLive ==
    [][\A p \in Procs : GcStep(p) =>
        \A id \in Ids : Live(fs, id) =>
            /\ Live(fs', id)
            /\ fs'[File(id)] = fs[File(id)]
            /\ is_dir(fs', Shard(id))]_vars

\* a gc of the second caller has returned Ok after it removed the temp file of
\* a put that is under way, and a record with another id is Live
C12_Witness ==
    /\ Returned(Reader, "gc") /\ proc[Reader].ret.ok
    /\ M.op = "put" /\ M.pc = "put_persist" /\ ~try_exists(fs, Temp(MainProc))
    /\ \E id \in Ids : id # M.id /\ Live(fs, id) /\ Shard(id) = Shard(M.id)

\* C13: get on a missing record: a get(id) on an id that is not Live when the
\* call is made fails with NoSuchData, whether the shard directory of id is
\* missing or is there without the canonical file.
C13_GetMissingNoSuchData ==
    (Returned(MainProc, "get") /\ ~Live(pre, M.id)) => M.ret = Err("NoSuchData")

\* C14: rm is read-before-delete: an rm(id) on an id that is not Live when the
\* call is made fails with NoSuchData and changes no file or directory; an
\* rm(id) on a Live record returns exactly the bytes the record held.
C14_RmReadBeforeDelete ==
    Returned(MainProc, "rm") =>
        IF Live(pre, M.id)
        THEN M.ret.ok /\ RetBytes(MainProc) = pre[File(M.id)].data
        ELSE M.ret = Err("NoSuchData") /\ fs = pre

\* a gc call is under way
GcRunning == M.op = "gc" /\ M.pc # "done"

\* C15 as stated: in every state reached by put, rm and gc calls on one handle
\* no identifier has both its canonical file and its tombstone file.
C15_ExclusiveForms == \A id \in Ids : ~(Live(fs, id) /\ Tombstoned(fs, id))

\* C15 amended: an identifier has both its canonical file and its tombstone
\* file only on a lazy handle, after an rm(id) has left the tombstone and a
\* later put(id) has made the record Live again, until the next rm(id) has
\* renamed the file or gc has removed the tombstone; a handle that is not lazy
\* has no tombstone at all, and a record is never in both forms when an rm of
\* it or a gc has returned Ok.
C15_BothFormsOnlyAfterPut ==
    /\ ~lazy => \A id \in Ids : ~Tombstoned(fs, id)
    /\ \A id \in Ids : (Live(fs, id) /\ Tombstoned(fs, id)) =>
            /\ hist.lastPut[id] # NoData \/ RmRunning(id)
            /\ hist.rmLast[id] # NoData \/ GcRunning
    /\ (M.pc = "done" /\ M.ret.ok /\ M.op = "rm") => ~Live(fs, M.id)
    /\ (M.pc = "done" /\ M.ret.ok /\ M.op = "gc") => \A id \in Ids : ~Tombstoned(fs, id)

\* a put on a Tombstoned id has returned: the record is Live and its tombstone
\* is still there
C15_Witness ==
    /\ lazy /\ Returned(MainProc, "put") /\ M.ret.ok
    /\ Tombstoned(pre, M.id) /\ ~Live(pre, M.id)
    /\ Live(fs, M.id) /\ Tombstoned(fs, M.id)

\* the shard directories of the configured encoding's alphabet
AlphabetShards ==
    { subfolders(base_encoding).val[i] : i \in 1 .. Len(subfolders(base_encoding).val) }

\* C16 as stated: on a handle built not-lazy, in every state reached by put, rm
\* and gc calls the root directory exists and so does the shard directory of
\* every symbol of the alphabet.
C16_ShardsAlwaysExist ==
    ~lazy => (is_dir(fs, Root) /\ \A s \in AlphabetShards : is_dir(fs, s))

\* the root directory exists, and so does the shard directory of every Live record
RootAndLiveShards ==
    /\ is_dir(fs, Root)
    /\ \A id \in Ids : Live(fs, id) => is_dir(fs, Shard(id))

\* a shard directory goes away only by the remove_dir of an rm (not lazy) or
\* of a gc, and only when it is empty
ShardRemovedOnlyEmpty ==
    \A s \in AlphabetShards : (is_dir(fs, s) /\ ~try_exists(fs', s)) =>
        /\ read_dir(fs, s) = {}
        /\ (M.pc = "rm_rmdir" /\ ~lazy) \/ M.pc = "gc_rmdir"

\* C16 amended: the root directory exists in every state, and so does the
\* shard directory of every Live record; the shard directories a not-lazy
\* try_build has created do not all stay: rm (not lazy) and gc remove a shard
\* directory when it is empty, and only then.
C16_ShardsUntilEmptied == []RootAndLiveShards /\ [][ShardRemovedOnlyEmpty]_vars

\* a gc on a not-lazy handle has removed every shard directory of the alphabet
C16_Witness ==
    /\ ~lazy /\ Returned(MainProc, "gc") /\ M.ret.ok
    /\ \A s \in AlphabetShards : is_dir(pre, s) /\ ~try_exists(fs, s)
    /\ is_dir(fs, Root)

\* the encodings whose alphabet the code knows
SupportedBases == { base \in Bases : encoding_symbols(base).ok }

\* what a try_build leaves below the root: nothing when lazy, and when not lazy
\* exactly one directory per symbol of the alphabet
BuildPost(f, isLazy, base) ==
    LET symbols == encoding_symbols(base).val
    IN  /\ is_dir(f, Root)
        /\ IF isLazy THEN read_dir(f, Root) = {}
           ELSE /\ read_dir(f, Root) = { <<symbols[i]>> : i \in 1 .. Len(symbols) }
                /\ Cardinality(read_dir(f, Root)) = Len(symbols)
                /\ \A q \in read_dir(f, Root) : is_dir(f, q)
        /\ \A q \in DOMAIN f : Len(q) <= 1

\* C17: shard bounding at build: in the state try_build leaves, and for every
\* supported encoding on a missing or an empty root, the entries of the root
\* are exactly one directory per symbol of the alphabet when not lazy, and the
\* root exists and holds no shard directory when lazy; no later step changes
\* the laziness the handle was built with.
C17_ShardBoundingAtBuild ==
    /\ BuildPost(fs, lazy, base_encoding)
    /\ \A disk \in StartDisks, isLazy \in BOOLEAN, base \in SupportedBases :
            /\ try_build(disk, isLazy, base).ok
            /\ BuildPost(try_build(disk, isLazy, base).val, isLazy, base)
    /\ [][lazy' = lazy]_vars

\* the state a not-lazy try_build has left: no call has been made yet
C17_Witness ==
    /\ ~lazy /\ \A p \in Procs : proc[p] = Idle
    /\ hist.last = NoCall /\ calls = 0
    /\ fs = try_build(EmptyDisk, FALSE, base_encoding).val
    /\ Cardinality(read_dir(fs, Root)) = Len(encoding_symbols(base_encoding).val)

\* the call before the one that has returned was a successful Blocks::put of
\* the same data with the same get_cid callback
SamePutAgain ==
    /\ kind = "blocks" /\ Returned(MainProc, "put") /\ M.ret.ok
    /\ hist.last.op = "put" /\ hist.last.data = M.data /\ hist.last.cidfn = M.cidfn

\* C18: idempotent put: when two successive puts of the same data (same
\* deterministic get_cid) have both succeeded, the second has returned the
\* identifier the first returned, the record is Live with exactly that data,
\* and no temp file of either put is left in the shard directory.
C18_IdempotentPut ==
    SamePutAgain =>
        /\ M.ret = hist.last.ret
        /\ Live(fs, M.id) /\ fs[File(M.id)].data = M.data
        /\ TempFiles(fs) = {}
        /\ read_dir(fs, Shard(M.id)) = read_dir(pre, Shard(M.id))

\* the second of two such puts has returned, and the record was Live with that
\* data when it was called
C18_Witness ==
    /\ SamePutAgain /\ M.renamed
    /\ Live(pre, M.id) /\ pre[File(M.id)].data = M.data

\* the put that has returned wrote its whole temp file and got past pre_commit,
\* and yet did not rename: its temp file was gone when persist came
LostWrite ==
    /\ Returned(MainProc, "put") /\ ~M.renamed
    /\ M.n = Len(M.data) /\ M.n > 0
    /\ kind = "blocks" => (M.pcalls = 1 /\ M.commit)

\* C19: the gc/put hazard: when a gc has deleted the temp file of a put after it
\* was written and before it was renamed, that put fails with the persist
\* error and its data does not become Live by it, and every record put before
\* (and not removed since) is still Live with the same bytes.
C19_GcPutHazard ==
    LostWrite =>
        /\ M.ret = Err("Persist")
        /\ ~try_exists(fs, Temp(MainProc))
        /\ hist.lastPut[M.id] = NoData => ~Live(fs, M.id)
        /\ \A id \in Ids : hist.lastPut[id] # NoData =>
                (Live(fs, id) /\ fs[File(id)].data = hist.lastPut[id])

\* the interleaving exists: a put has lost its temp file to a gc of the second
\* caller, its identifier is not Live, and a record put before it is Live
C19_Witness ==
    /\ LostWrite /\ M.ret = Err("Persist")
    /\ proc[Reader].op = "gc"
    /\ ~Live(fs, M.id)
    /\ \E id \in Ids : id # M.id /\ hist.lastPut[id] # NoData /\ Live(fs, id)

\* both callers have made a Blocks::put of the same data with the same get_cid
\* callback, neither callback fails, and both calls have returned
SamePutsDone ==
    /\ kind = "blocks"
    /\ \A p \in Procs : Returned(p, "put") /\ proc[p].commit /\ proc[p].cidfn # "fail"
    /\ proc[MainProc].data = proc[Reader].data
    /\ proc[MainProc].cidfn = proc[Reader].cidfn

\* C20: concurrent puts of the same content: however the steps of two
\* Blocks::put calls with the same data and the same get_cid are interleaved
\* (no gc and no rm running, callbacks that succeed), both return Ok with the
\* same identifier and the record is then Live with exactly that data.
C20_ConcurrentSamePuts ==
    SamePutsDone =>
        LET id == get_cid(M.cidfn, M.data).val
        IN  /\ \A p \in Procs : proc[p].ret = Ok(id)
            /\ Live(fs, id) /\ fs[File(id)].data = M.data
            /\ TempFiles(fs) = {}

\* the two puts were the only calls, on a lazy handle: both have created the
\* shard directory and renamed a temp file of their own
C20_Witness ==
    /\ SamePutsDone /\ calls = 2 /\ lazy
    /\ \A p \in Procs : proc[p].renamed /\ proc[p].ret.ok
    /\ Live(fs, M.id)

\* the only two calls made are puts of the two callers, for different
\* identifiers of one shard directory, with callbacks that do not fail, and
\* both have returned
TwoPutsOneShard ==
    /\ calls = 2
    /\ \A p \in Procs : Returned(p, "put") /\ proc[p].id \in Ids
                        /\ proc[p].commit /\ proc[p].cidfn # "fail"
    /\ proc[MainProc].id # proc[Reader].id
    /\ Shard(proc[MainProc].id) = Shard(proc[Reader].id)

\* C21: concurrent puts into one shard: however the steps of two put calls for
\* different identifiers of the same shard directory are interleaved (no gc and
\* no rm running), both return Ok and both records are Live, each with its own
\* data; the check-then-create of the shard directory makes neither fail.
C21_ConcurrentPutsOneShard ==
    TwoPutsOneShard =>
        \A p \in Procs :
            /\ proc[p].ret.ok /\ proc[p].renamed
            /\ Live(fs, proc[p].id)
            /\ fs[File(proc[p].id)].data = proc[p].data

\* both puts found the shard directory missing on a lazy handle: the second
\* create_dir_all met the directory the first had made
C21_Witness ==
    /\ TwoPutsOneShard /\ lazy /\ ~try_exists(pre, Shard(M.id))
    /\ \A p \in Procs : proc[p].ret.ok /\ Live(fs, proc[p].id)

\* the step taken is the rename of a put of id that succeeds
CommitStep(id) ==
    \E p \in Procs :
        /\ proc[p].op = "put" /\ proc[p].pc = "put_persist" /\ proc[p].id = id
        /\ proc'[p].pc = "done" /\ proc'[p].ret.ok /\ proc'[p].renamed

\* C25: single commit point: the handle starts with no record Live, and a
\* canonical file comes into being, or gets other bytes, only by the final
\* rename of a put for that identifier which then returns Ok: by no step of rm,
\* gc, get or exists, no earlier step of put and no put that fails.
C25_SingleCommitPoint ==
    /\ \A id \in Ids : ~try_exists(fs, File(id))
    /\ [][\A id \in Ids :
            (/\ try_exists(fs', File(id))
             /\ ~try_exists(fs, File(id)) \/ fs'[File(id)] # fs[File(id)])
                => CommitStep(id)]_vars

\* a put that failed after it had written its whole temp file, on an id that
\* is not Live; another record has been made Live by a put
C25_Witness ==
    /\ Returned(MainProc, "put") /\ ~M.ret.ok /\ M.n = Len(M.data) /\ M.n > 0
    /\ ~Live(fs, M.id)
    /\ \E id \in Ids : Live(fs, id)

\* the step taken is a call of the pre_commit callback by caller p
PreCommitCalled(p) == proc'[p].pcalls = proc[p].pcalls + 1

\* what holds of a Blocks::put once it has returned or renamed
PreCommitCounted ==
    kind = "blocks" =>
        /\ M.pcalls <= 1
        /\ M.renamed => (M.pcalls = 1 /\ M.commit)
        /\ (Returned(MainProc, "put") /\ M.ret.ok) => (M.pcalls = 1 /\ M.commit /\ M.renamed)

\* C26: pre_commit ordering: Blocks::put calls pre_commit at most once, only
\* after get_cid has succeeded, when the shard directory exists and the temp
\* file holds the complete payload, and before the rename; a put that returns
\* Ok has called it exactly once and it returned Ok.
C26_PreCommitOrdering ==
    /\ []PreCommitCounted
    /\ [][PreCommitCalled(MainProc) =>
            /\ kind = "blocks" /\ M.op = "put" /\ M.pcalls = 0
            /\ get_cid(M.cidfn, M.data) = Ok(M.id)
            /\ is_dir(fs, Shard(M.id))
            /\ is_file(fs, Temp(MainProc)) /\ fs[Temp(MainProc)].data = M.data
            /\ ~M.renamed /\ ~proc'[MainProc].renamed
            /\ try_exists(fs', File(M.id)) = try_exists(fs, File(M.id))
            /\ try_exists(fs, File(M.id)) => fs'[File(M.id)] = fs[File(M.id)]]_vars

\* a Blocks::put has returned Ok after its one call of pre_commit
C26_Witness ==
    /\ kind = "blocks" /\ Returned(MainProc, "put") /\ M.ret.ok
    /\ M.pcalls = 1 /\ M.commit /\ M.renamed /\ ~Live(pre, M.id)

\* the Blocks::put that has returned was given a get_cid callback that fails
DeriveIdFailed == kind = "blocks" /\ Returned(MainProc, "put") /\ M.cidfn = "fail"

\* C27: derive_id failure: when the get_cid callback returns an error,
\* Blocks::put returns that error, pre_commit is not called, and no file or
\* directory is created, changed or removed.
C27_DeriveIdFailure ==
    DeriveIdFailed =>
        /\ M.ret = get_cid(M.cidfn, M.data)
        /\ ~M.ret.ok
        /\ M.pcalls = 0 /\ ~M.renamed
        /\ fs = pre

\* such a put has returned on a lazy handle on which the shard directory of
\* the identifiers is still missing
C27_Witness ==
    /\ DeriveIdFailed /\ M.ret = Err("Custom")
    /\ lazy /\ \A id \in Ids : ~try_exists(fs, Shard(id))

\* the encoded strings of at most MaxStrLen characters
EncodedStrings == UNION { [1 .. n -> {"0", "1", "h"}] : n \in 0 .. MaxStrLen }

\* the index, counted from 0 at the start, of the shard character of a string
\* of l characters
ShardIndex(l) == l - 1 - (l \div 2)

\* the paths of an encoded string s: shard directory, canonical path, tombstone
PathsOf(s) ==
    [subfolder |-> <<s[ShardIndex(Len(s)) + 1]>>,
     file |-> <<s[ShardIndex(Len(s)) + 1], s>>,
     lazy_deleted_file |-> <<s[ShardIndex(Len(s)) + 1], <<".">> \o s>>]

DerivesPaths(s) ==
    LET sub == get_subfolder(s)
    IN  IF Len(s) = 0 THEN sub = Err("InvalidId")
        ELSE /\ sub = Ok(PathsOf(s).subfolder)
             /\ get_file(sub.val, s) = PathsOf(s).file
             /\ get_lazy_deleted_file(sub.val, s) = PathsOf(s).lazy_deleted_file

\* C29: shard character: the shard directory of an encoded string s of l >= 1
\* characters is the character of s at index l-1-floor(l/2) from the start
\* (index 0 for l = 1 and l = 2), the canonical path is that directory and s,
\* the tombstone path that directory and "." s, and the empty string gives
\* InvalidId; the paths of every identifier a call works on are these.
C29_ShardCharacter ==
    /\ ShardIndex(1) = 0 /\ ShardIndex(2) = 0
    /\ \A s \in EncodedStrings : DerivesPaths(s)
    /\ \A base \in SupportedBases, id \in Ids :
            LET gp == get_paths(base, id)
            IN  /\ gp.ok
                /\ gp.val.subfolder = PathsOf(encode(base, id)).subfolder
                /\ gp.val.file = PathsOf(encode(base, id)).file
                /\ gp.val.lazy_deleted_file = PathsOf(encode(base, id)).lazy_deleted_file
    /\ [](\A p \in Procs : proc[p].id \in Ids =>
            /\ Paths(p).subfolder = PathsOf(Paths(p).eid).subfolder
            /\ Paths(p).file = PathsOf(Paths(p).eid).file
            /\ Paths(p).lazy_deleted_file = PathsOf(Paths(p).eid).lazy_deleted_file)

\* a lazy rm has returned and left its tombstone at the path of the claim, in
\* the shard directory named by the character in the middle of a string of
\* more than two characters
C29_Witness ==
    /\ lazy /\ Returned(MainProc, "rm") /\ M.ret.ok
    /\ Len(Paths(MainProc).eid) > 2
    /\ is_dir(fs, PathsOf(Paths(MainProc).eid).subfolder)
    /\ is_file(fs, PathsOf(Paths(MainProc).eid).lazy_deleted_file)
    /\ ~try_exists(fs, PathsOf(Paths(MainProc).eid).file)

\* the identifiers of one byte
OneByteIds == { <<b>> : b \in 0 .. 255 }

\* the shard directories gc scans under an encoding
Scanned(base) == { subfolders(base).val[i] : i \in 1 .. Len(subfolders(base).val) }

\* C30: shards stay inside the alphabet: for every encoding the table accepts
\* and every identifier, the shard directory get_paths derives is one of the
\* directories subfolders returns for that encoding, and every entry below the
\* root lies in a directory that gc scans.
C30_ShardsInsideAlphabet ==
    /\ \A base \in SupportedBases, id \in OneByteIds :
            /\ get_paths(base, id).ok
            /\ get_paths(base, id).val.subfolder \in Scanned(base)
    /\ \A q \in DOMAIN fs : Len(q) >= 1 => <<q[1]>> \in Scanned(base_encoding)

\* C23: unsupported encoding at build: try_build with a base encoding that has
\* no entry in the table fails with UnsupportedBaseEncoding, lazy or not: a
\* builder with the laziness of the handle of the run, and any builder.
C23_UnsupportedAtBuild ==
    /\ \A disk \in StartDisks, base \in Bases \ SupportedBases :
            try_build(disk, lazy, base) = Err("UnsupportedBaseEncoding")
    /\ \A disk \in StartDisks, isLazy \in BOOLEAN, base \in Bases \ SupportedBases :
            /\ ~try_build(disk, isLazy, base).ok
            /\ try_build(disk, isLazy, base).err = "UnsupportedBaseEncoding"

\* the roots a builder is given
RootNames == {"store1", "store2"}

\* what the claim says of the handle a builder returns on a disk
BuiltWith(b, disk, root, isLazy) ==
    LET r == Builder_try_build(b, disk)
    IN  /\ r.ok
        /\ r.val.root = root /\ r.val.lazy = isLazy
        /\ r.val.base_encoding = "Base32Z"
        /\ is_dir(r.val.fs, Root)
        /\ isLazy => read_dir(r.val.fs, Root) = {}

\* C24: builder defaults: Builder::new(root).try_build() returns a handle with
\* the given root, lazy = true and the encoding Base32Z and creates the root
\* when it is missing; with not_lazy() before try_build the handle has
\* lazy = false, the same root and the same encoding. The handle of the run
\* starts from the disk its builder left, and keeps its laziness.
C24_BuilderDefaults ==
    /\ \A root \in RootNames, disk \in StartDisks :
            /\ BuiltWith(BuilderNew(root), disk, root, TRUE)
            /\ BuiltWith(not_lazy(BuilderNew(root)), disk, root, FALSE)
    /\ \E disk \in StartDisks :
            /\ Builder_try_build(BuilderOf(lazy), disk).val.lazy = lazy
            /\ Builder_try_build(BuilderOf(lazy), disk).val.fs = fs
    /\ [][lazy' = lazy /\ is_dir(fs', Root)]_vars

\* the state Builder::new(root).try_build() leaves on a missing root: a lazy
\* handle, the root created and empty, no call made yet
C24_Witness ==
    /\ lazy /\ calls = 0 /\ \A p \in Procs : proc[p] = Idle
    /\ hist.last = NoCall
    /\ fs = Builder_try_build(BuilderNew(Root), EmptyDisk).val.fs
    /\ fs = WithNode(EmptyDisk, Root, DirNode)

\* the get or put that has returned had derived its paths, and the shard path
\* was a foreign file when the call was made
ShardWasForeign ==
    /\ M.pc = "done" /\ M.op \in {"get", "put"}
    /\ M.id \in Ids
    /\ is_file(pre, Shard(M.id))

\* C28: NotDir: when the shard path of the identifier exists and is not a
\* directory, get and put (Blocks and CidMap) return NotDir, leave every file
\* and directory as it was, and put has not called pre_commit.
C28_NotDir ==
    ShardWasForeign =>
        /\ M.ret = Err("NotDir")
        /\ fs = pre
        /\ M.pcalls = 0 /\ ~M.renamed

\* a put whose pre_commit would succeed has returned NotDir on such a root
C28_Witness ==
    /\ ShardWasForeign /\ M.op = "put" /\ M.commit
    /\ M.ret = Err("NotDir") /\ TempFiles(fs) = {}

\* the dot-named entries of the shard directories
DotFiles(f) == { q \in DOMAIN f : Len(q) = 2 /\ starts_with_dot(q) }

\* what an interrupted put has left: the canonical path of its identifier and
\* every entry that is not dot-named are as they were when the put was called,
\* and a new entry is the shard directory of the identifier or a dot-named file
\* in it
LeftBehindOnly ==
    /\ M.id \in Ids =>
            /\ try_exists(fs, File(M.id)) = try_exists(pre, File(M.id))
            /\ try_exists(pre, File(M.id)) => fs[File(M.id)] = pre[File(M.id)]
    /\ \A q \in DOMAIN pre :
            q \in DOMAIN fs /\ (q \notin DotFiles(pre) => fs[q] = pre[q])
    /\ \A q \in (DOMAIN fs) \ (DOMAIN pre) :
            /\ M.id \in Ids
            /\ \/ q = Shard(M.id) /\ is_dir(fs, q)
               \/ is_file(fs, q) /\ q \in DotFiles(fs) /\ <<q[1]>> = Shard(M.id)

\* C22: crash safety of put: when a put has been interrupted before its rename
\* the canonical path of the identifier is as it was before the put and any
\* file the put has left is a dot-named file in the shard directory; the gc
\* that runs next succeeds and leaves no dot-named file.
C22_CrashSafety ==
    /\ M.pc = "crashed" => LeftBehindOnly
    /\ Returned(MainProc, "gc") => M.ret.ok /\ DotFiles(fs) = {}

\* a gc has returned that was called on a root holding the temp file of an
\* interrupted put, next to a record
C22_Witness ==
    /\ Returned(MainProc, "gc") /\ M.ret.ok
    /\ TempFiles(pre) # {} /\ TempFiles(fs) = {}
    /\ \E id \in Ids : Live(fs, id)

TombstoneLeaves == \E id \in Ids : Tombstoned(fs, id) /\ ~Tombstoned(fs', id)

\* C33: tombstones leave only through gc: on a lazy handle the tombstone path
\* of an identifier, once it exists, exists after every step of a put, rm,
\* get or exists call; a step that makes it cease to exist is a step of gc.
C33_TombstonesLeaveByGc ==
    [][(lazy /\ TombstoneLeaves) => (M.op = "gc" /\ M.pc = "gc_file")]_vars

\* on a lazy handle a second rm of a record that was put again has returned,
\* and the tombstone path that existed when it was called exists
C33_Witness ==
    /\ lazy /\ Returned(MainProc, "rm") /\ M.ret.ok
    /\ Tombstoned(pre, M.id) /\ Live(pre, M.id)
    /\ Tombstoned(fs, M.id) /\ ~Live(fs, M.id)

\* the record of an identifier is in f as it is in g: Live, Tombstoned or
\* Absent alike, with the same bytes
SameRecord(f, g, id) ==
    /\ Live(f, id) = Live(g, id)
    /\ Tombstoned(f, id) = Tombstoned(g, id)
    /\ Live(f, id) => f[File(id)] = g[File(id)]
    /\ Tombstoned(f, id) => f[Tomb(id)] = g[Tomb(id)]

\* the identifiers 0, 8, 16, ... 248
SpreadIds == { id \in OneByteIds : id[1] % 8 = 0 }

\* under an encoding, the canonical path of one identifier is not the
\* canonical path, the tombstone path or a temp file of another one
DisjointPaths(base, id, other) ==
    LET mine == get_paths(base, id).val
        theirs == get_paths(base, other).val
    IN  /\ mine.file # theirs.file
        /\ mine.file # theirs.lazy_deleted_file
        /\ \A p \in Procs : mine.file # TempPath(p, theirs.subfolder, theirs.eid)

\* C34: isolation between identifiers: during and after a put(id) or an
\* rm(id), whatever it returns, every other identifier is Live, Tombstoned or
\* Absent as it was when the call was made, with the same bytes; and the
\* canonical path of an identifier is never the canonical path, the tombstone
\* path or a temp file of another identifier.
C34_Isolation ==
    /\ \A base \in SupportedBases, id \in SpreadIds :
            \A other \in SpreadIds \ {id} : DisjointPaths(base, id, other)
    /\ [](\A id \in Ids : \A other \in Ids \ {id} :
                DisjointPaths(base_encoding, id, other))
    /\ []((M.op \in {"put", "rm"} /\ M.pc # "idle") =>
            \A other \in Ids \ {M.id} : SameRecord(fs, pre, other))

\* a not-lazy rm has returned the payload of a record, and another record of
\* the same shard directory is Live as it was
C34_Witness ==
    /\ ~lazy /\ Returned(MainProc, "rm") /\ M.ret.ok /\ ~Live(fs, M.id)
    /\ \E other \in Ids \ {M.id} :
            /\ Shard(other) = Shard(M.id)
            /\ Live(pre, other) /\ Live(fs, other)
            /\ fs[File(other)] = pre[File(other)]

\* on a lazy handle, the identifier of the call that has returned was
\* Tombstoned and not Live when the call was made
WasTombstoned ==
    /\ lazy /\ M.pc = "done" /\ M.id \in Ids
    /\ Tombstoned(pre, M.id) /\ ~Live(pre, M.id)

\* C35: re-put after lazy rm: on a lazy handle a put for a Tombstoned
\* identifier (its pre_commit succeeding) returns Ok and makes it Live with the
\* new payload, which get then returns; the gc that follows succeeds, removes
\* the stale tombstone and leaves the record Live with that payload in its
\* shard directory.
C35_RePutAfterLazyRm ==
    /\ (WasTombstoned /\ M.op = "put" /\ (kind = "blocks" => M.commit)) =>
            /\ M.ret.ok /\ M.renamed
            /\ Live(fs, M.id) /\ fs[File(M.id)].data = M.data
            /\ Tombstoned(fs, M.id)
    /\ (lazy /\ Returned(MainProc, "get") /\ Live(pre, M.id) /\ Tombstoned(pre, M.id)) =>
            /\ M.ret.ok
            /\ RetBytes(MainProc) = pre[File(M.id)].data
            /\ RetBytes(MainProc) = hist.lastPut[M.id]
    /\ (lazy /\ Returned(MainProc, "gc")) =>
            /\ M.ret.ok
            /\ \A id \in Ids : ~Tombstoned(fs, id)
            /\ \A id \in Ids : Live(pre, id) =>
                    /\ Live(fs, id) /\ fs[File(id)] = pre[File(id)]
                    /\ is_dir(fs, Shard(id))

\* a gc has returned on a lazy handle on which a record was Live next to its
\* stale tombstone, the two holding different payloads
C35_Witness ==
    /\ lazy /\ Returned(MainProc, "gc") /\ M.ret.ok
    /\ \E id \in Ids :
            /\ Live(pre, id) /\ Tombstoned(pre, id)
            /\ pre[File(id)].data # pre[Tomb(id)].data
            /\ Live(fs, id) /\ ~Tombstoned(fs, id)

\* the put of the first caller has its temp file open
InFlight == M.op = "put" /\ M.pc \in {"put_write", "put_pre_commit", "put_persist"}

\* once the temp file of the put in flight is gone it does not come back, and
\* the put does not end in Ok
TempGoneIsError ==
    (InFlight /\ ~try_exists(fs, Temp(MainProc))) =>
        /\ ~try_exists(fs', Temp(MainProc))
        /\ proc'[MainProc].pc = "done" => ~proc'[MainProc].ret.ok

\* put does not create its temp file in a shard directory that is gone: it
\* ends with an error
DirGoneIsError ==
    (M.op = "put" /\ M.pc = "put_temp" /\ proc'[MainProc] # M
        /\ ~is_dir(fs, Shard(M.id))) =>
            /\ proc'[MainProc].pc = "done" /\ ~proc'[MainProc].ret.ok
            /\ fs' = fs

\* the step that ends a put in Ok is the rename of its temp file, after which
\* the record is Live with the data of the put
OkByRename ==
    (M.op = "put" /\ M.pc # "done" /\ proc'[MainProc].pc = "done"
        /\ proc'[MainProc].ret.ok) =>
            /\ M.pc = "put_persist" /\ try_exists(fs, Temp(MainProc))
            /\ proc'[MainProc].renamed
            /\ Live(fs', M.id) /\ fs'[File(M.id)].data = M.data
            /\ ~try_exists(fs', Temp(MainProc))

\* C36: no silent lost write: a put that has returned Ok has made its rename
\* onto the canonical path; with the rm and gc calls of another caller
\* interleaved, a put whose temp file or shard directory is removed before
\* the rename ends with an error.
C36_NoSilentLostWrite ==
    /\ [](\A p \in Procs :
            (proc[p].pc = "done" /\ proc[p].op = "put" /\ proc[p].ret.ok) => proc[p].renamed)
    /\ [][TempGoneIsError /\ DirGoneIsError /\ OkByRename]_vars

\* a put has ended with an I/O error because the not-lazy rm of the other
\* caller removed the shard directory before the temp file was created
C36_Witness ==
    /\ ~lazy /\ Returned(MainProc, "put") /\ M.ret = Err("Io") /\ ~M.renamed
    /\ proc[Reader].op = "rm" /\ proc[Reader].pc = "done" /\ proc[Reader].ret.ok
    /\ ~try_exists(fs, Shard(M.id))

\* both callers have made an rm of the same identifier, both have read the
\* payload of the Live record, and both calls have come to their end
BothRmRead ==
    /\ \A p \in Procs : proc[p].pc = "done" /\ proc[p].op = "rm" /\ proc[p].v # NoData
    /\ proc[MainProc].id = proc[Reader].id

RmOks == { p \in Procs : proc[p].ret.ok }

\* C37 as claimed: exclusive removal: of two interleaved rm(id) calls on the
\* same Live record at most one returns Ok with the payload, and the other one
\* fails.
C37_ExclusiveRemoval == BothRmRead => Cardinality(RmOks) <= 1

\* an rm that finds the file gone at its existence check skips the removal and
\* goes on to the cleanup of the shard directory
SkipsWhenGone ==
    \A p \in Procs :
        (proc[p].pc = "rm_stat" /\ proc'[p] # proc[p] /\ ~is_file(fs, Paths(p).file)) =>
            proc'[p].pc = "rm_dirstat" /\ proc'[p].v = proc[p].v

\* C37 as the code has it: of two interleaved rm(id) calls that have both read
\* the Live record at least one returns Ok, each call that returns Ok returns
\* the payload it read, a call that fails fails with an I/O error, and the
\* record is not Live afterwards (Tombstoned when lazy); an rm that finds the
\* file gone at its existence check does not fail for that.
C37_RemovalNotExclusive ==
    /\ [](BothRmRead =>
            /\ RmOks # {}
            /\ \A p \in RmOks : RetBytes(p) = proc[p].v
            /\ \A p \in Procs \ RmOks : proc[p].ret = Err("Io")
            /\ ~Live(fs, M.id)
            /\ lazy => Tombstoned(fs, M.id))
    /\ [][SkipsWhenGone]_vars

\* both rm calls have returned Ok with the same payload
C37_Witness ==
    /\ BothRmRead /\ RmOks = Procs
    /\ RetBytes(MainProc) = RetBytes(Reader)
    /\ ~Live(fs, M.id)

\* the put of the first caller has come to its end, its identifier was
\* derived and its pre_commit does not fail
PutEnded ==
    /\ Returned(MainProc, "put") /\ M.id \in Ids
    /\ kind = "blocks" => M.commit

\* the call of the second caller is on another identifier
OtherIdentifier == proc[Reader].op = "rm" /\ proc[Reader].id # M.id

\* C38: only gc can break an in-flight put: with the steps of
\* put(id) interleaved with the rm calls of another caller on other
\* identifiers, and no gc, put(id) returns Ok, lazy or not.
C38_OnlyGcBreaksPut == (PutEnded /\ OtherIdentifier) => M.ret.ok

\* What holds of the code in the place of C38: with no gc, a put on a lazy
\* handle returns Ok; on a
\* handle that is not lazy a put either returns Ok or fails before it has
\* created its temp file, with NotDir or with an I/O error, because an rm has
\* removed the emptied shard directory after put found it in place; a put
\* that returns Ok has made its rename, after which the record is Live with
\* its data.
C38_NotLazyRmBreaksPut ==
    /\ [](PutEnded =>
            /\ lazy => M.ret.ok
            /\ M.ret.ok = M.renamed
            /\ ~M.ret.ok =>
                    /\ M.ret \in {Err("Io"), Err("NotDir")} /\ M.n = 0
                    /\ ~try_exists(fs, Temp(MainProc)))
    /\ [][OkByRename]_vars

\* a put has failed with an I/O error on a handle that is not lazy: the rm of
\* the other caller, on another identifier of the same shard, has returned Ok
\* and the shard directory is gone
C38_Witness ==
    /\ PutEnded /\ OtherIdentifier /\ ~lazy
    /\ M.ret = Err("Io")
    /\ Shard(proc[Reader].id) = Shard(M.id)
    /\ proc[Reader].pc = "done" /\ proc[Reader].ret.ok
    /\ ~try_exists(fs, Shard(M.id))

\* ---------------------------------------------------------------------- C31
\* What the claim compares: per identifier whether it has a record (Live) and
\* whether it has a tombstone, and the shard directories there are.
RecordState(f, id) == [live |-> Live(f, id), tomb |-> Tombstoned(f, id)]
ShardDirs(f) == { q \in DOMAIN f : Len(q) = 1 /\ is_dir(f, q) }
Abstract(f) == [rec |-> [id \in Ids |-> RecordState(f, id)], shards |-> ShardDirs(f)]

\* One engine, which does not know the instantiation: what a call makes of
\* such a state on a handle with the laziness flag z, and the error kind it
\* fails with ("none" when it returns Ok).
Occupied(rec, sh) == \E id \in Ids : Shard(id) = sh /\ (rec[id].live \/ rec[id].tomb)

EngineBuild(z) ==
    [rec |-> [id \in Ids |-> [live |-> FALSE, tomb |-> FALSE]],
     shards |-> IF z THEN {}
                ELSE LET symbols == encoding_symbols(base_encoding).val
                     IN  { <<symbols[i]>> : i \in 1 .. Len(symbols) }]

EngineRead(a, id) ==
    [after |-> a,
     err |-> IF Shard(id) \notin a.shards THEN "NoSuchData"
             ELSE IF ~a.rec[id].live THEN "Io"
             ELSE "none"]

EnginePut(a, id) ==
    [after |-> [rec |-> [a.rec EXCEPT ![id].live = TRUE],
                shards |-> a.shards \cup {Shard(id)}],
     err |-> "none"]

EngineRm(a, id, z) ==
    IF EngineRead(a, id).err # "none" THEN EngineRead(a, id)
    ELSE LET rec == [a.rec EXCEPT ![id] = [live |-> FALSE, tomb |-> z \/ @.tomb]]
         IN  [after |-> [rec |-> rec,
                         shards |-> IF ~z /\ ~Occupied(rec, Shard(id))
                                    THEN a.shards \ {Shard(id)} ELSE a.shards],
              err |-> "none"]

EngineGc(a) ==
    LET rec == [id \in Ids |-> [live |-> a.rec[id].live, tomb |-> FALSE]]
    IN  [after |-> [rec |-> rec, shards |-> { sh \in a.shards : Occupied(rec, sh) }],
         err |-> "none"]

Engine(a, op, id, z) ==
    CASE op = "exists" -> [after |-> a, err |-> "none"]
      [] op = "get" -> EngineRead(a, id)
      [] op = "put" -> EnginePut(a, id)
      [] op = "rm" -> EngineRm(a, id, z)
      [] op = "gc" -> EngineGc(a)

\* a call that all three instantiations have has returned: any call but a
\* Blocks::put whose get_cid or pre_commit callback fails
SharedCallReturned ==
    /\ M.pc = "done"
    /\ M.op = "put" => (M.cidfn # "fail" /\ M.commit)

\* C31: the three instantiations are one engine.  FsBlocks::encoding_symbols
\* and FsStorage::encoding_symbols give the same result for every base
\* encoding; and whichever instantiation the handle is, the build and every
\* put, exists, get, rm and gc call that returns leave per identifier the
\* Live/Tombstoned/Absent state, the set of shard directories and the error
\* kind that the one engine gives for the state before the call, the call and
\* the laziness flag alone (the payloads and the values returned aside).
C31_OneEngine ==
    /\ \A base \in Bases : FsBlocks_encoding_symbols(base) = encoding_symbols(base)
    /\ Abstract(fs) = EngineBuild(lazy)
    /\ [](SharedCallReturned =>
            LET e == Engine(Abstract(pre), M.op, M.id, lazy)
            IN  /\ Abstract(fs) = e.after
                /\ M.ret.err = e.err
                /\ M.op = "exists" => M.ret.val = Abstract(pre).rec[M.id].live)

\* a CidMap handle that is not lazy has returned from an rm that removed the
\* record and, with it, the shard directory
C31_Witness ==
    /\ kind = "map" /\ ~lazy
    /\ Returned(MainProc, "rm") /\ M.ret.ok
    /\ ShardDirs(fs) # ShardDirs(pre)

====
